---- MODULE Spec2Model ----
(***************************************************************************)
(* The ProgreTest Engine adaptive assessment (app.py, llm_handler.py,      *)
(* pdf_extractor.py, report_generator.py): the adaptive difficulty         *)
(* controller, the JSON parser of the model's responses, the weak-topics   *)
(* list of the report, and the session state that the Streamlit script     *)
(* keeps in st.session_state.                                              *)
(*                                                                         *)
(* Execution model.  Streamlit runs main() from the top on every widget    *)
(* interaction; a button returns True only in the run its click started    *)
(* and only if that run reaches the call that renders it; st.rerun() ends  *)
(* the run and starts main() again with no widget event.  One action of    *)
(* this model is one learner interaction together with every script run    *)
(* it causes.                                                              *)
(***************************************************************************)
EXTENDS Integers, Sequences, FiniteSets, TLC

VARIABLES
    session_state,   \* st.session_state: the record of keys set by init_session_state
    uploaded_file,   \* value of the st.file_uploader widget (a file, or NoFile)
    answer,          \* value of the st.radio widget keyed answer_<total_questions>
    recording,       \* whether the session's interactions are being recorded
    last_interaction, \* recorded: the button pressed and the model calls made by the last interaction
    arg_window,      \* controller harness: first window argument
    arg_window2,     \* controller harness: second window argument
    arg_current,     \* controller harness: current_difficulty argument
    ret,             \* controller harness: result on (arg_window, arg_current)
    ret2,            \* controller harness: result on (arg_window2, arg_current)
    called,          \* harness: whether the function under test has been applied
    arg_history,     \* weak-topics harness: the questions_history argument
    ret_topics,      \* weak-topics harness: the list get_weak_topics returned
    response_text,   \* parser: the model's response being parsed
    parse_pc,        \* parser: the strategy about to be tried, or how it ended
    parse_result,    \* parser: the value returned, if any
    attempted,       \* parser: the strategies tried so far, in order
    mcq_request,     \* snap_learn endpoints: the request and what the model returns for it
    mcq_response,    \* snap_learn endpoints: the response of the endpoint called
    sessions,        \* two learners: each session's st.session_state, its lists held by reference
    heap             \* two learners: the contents of every list object of the process

vars == <<session_state, uploaded_file, answer, recording, last_interaction,
          arg_window, arg_window2, arg_current, ret, ret2, called,
          arg_history, ret_topics,
          response_text, parse_pc, parse_result, attempted,
          mcq_request, mcq_response, sessions, heap>>

sessionVars == <<session_state, uploaded_file, answer, recording, last_interaction>>
controllerVars == <<arg_window, arg_window2, arg_current, ret, ret2>>
weakVars == <<arg_history, ret_topics>>
parserVars == <<response_text, parse_pc, parse_result, attempted>>
mcqVars == <<mcq_request, mcq_response>>
twoVars == <<sessions, heap>>
harnessVars == <<controllerVars, called, weakVars, parserVars, mcqVars, twoVars>>

-----------------------------------------------------------------------------
(* Bounds of the model *)

\* Longest performance window handed to the controller harness.
MaxWindow == 5
\* Longest history handed to the weak-topics harness.
MaxHistory == 4
\* Most answers submitted in one session before Submit is no longer taken.
MaxAnswers == 4
\* The same, in a session whose interactions are recorded.
MaxRecorded == 2
\* The same, in a session of answers alone (no upload, no failing model).
MaxStreak == 7
\* Most MCQs the model returns to a snap_learn endpoint.
MaxMcqs == 12
\* Most answers either learner submits when two sessions share the process.
MaxShared == 1
\* len(asked_questions) is tracked up to this value and saturates there.
MaxAsked == 2

-----------------------------------------------------------------------------
(* Values *)

\* Python's None, for the string-valued keys.
None == "None"
\* Python's None, for the dict-valued keys (current_question, last_feedback).
NoneRec == [none |-> TRUE]

Bits == {0, 1}
Difficulties == {1, 2, 3}

RECURSIVE BitSeqs(_)
\* All sequences of correctness bits of length at most n.
BitSeqs(n) ==
    IF n = 0 THEN {<<>>}
    ELSE LET shorter == BitSeqs(n - 1)
         IN  shorter \cup {Append(w, b) : w \in {v \in shorter : Len(v) = n - 1}, b \in Bits}

\* The windows the harness draws from, and those too short for the controller.
AllWindows == BitSeqs(MaxWindow)
ShortWindows == {w \in AllWindows : Len(w) < 3}

RECURSIVE sum(_)
\* Python's sum() of a list of integers.
sum(seq) == IF seq = <<>> THEN 0 ELSE Head(seq) + sum(Tail(seq))

\* Python's performance_window[-3:] (the whole list when it is shorter than 3).
recent(performance_window) ==
    IF Len(performance_window) <= 3 THEN performance_window
    ELSE SubSeq(performance_window, Len(performance_window) - 2, Len(performance_window))

-----------------------------------------------------------------------------
(* The adaptive difficulty controller: app.py calculate_adaptive_difficulty *)

\* Variant: the length guard reads "< 2".
calc_guard_off_by_one(performance_window, current_difficulty) ==
    IF Len(performance_window) < 2 THEN current_difficulty
    ELSE LET correct_count == sum(recent(performance_window))
         IN  IF correct_count >= 2 /\ current_difficulty < 3 THEN current_difficulty + 1
             ELSE IF correct_count <= 1 /\ current_difficulty > 1 THEN current_difficulty - 1
             ELSE current_difficulty

\* Variant: escalation needs all three correct ("> 2").
calc_escalate_on_three(performance_window, current_difficulty) ==
    IF Len(performance_window) < 3 THEN current_difficulty
    ELSE LET correct_count == sum(recent(performance_window))
         IN  IF correct_count > 2 /\ current_difficulty < 3 THEN current_difficulty + 1
             ELSE IF correct_count <= 1 /\ current_difficulty > 1 THEN current_difficulty - 1
             ELSE current_difficulty

\* Variant: de-escalation needs all three incorrect ("< 1").
calc_deescalate_on_zero(performance_window, current_difficulty) ==
    IF Len(performance_window) < 3 THEN current_difficulty
    ELSE LET correct_count == sum(recent(performance_window))
         IN  IF correct_count >= 2 /\ current_difficulty < 3 THEN current_difficulty + 1
             ELSE IF correct_count < 1 /\ current_difficulty > 1 THEN current_difficulty - 1
             ELSE current_difficulty

\* Variant: the lower boundary guard reads "> 2", so level 2 is held too.
calc_hold_at_two(performance_window, current_difficulty) ==
    IF Len(performance_window) < 3 THEN current_difficulty
    ELSE LET correct_count == sum(recent(performance_window))
         IN  IF correct_count >= 2 /\ current_difficulty < 3 THEN current_difficulty + 1
             ELSE IF correct_count <= 1 /\ current_difficulty > 2 THEN current_difficulty - 1
             ELSE current_difficulty

\* Variant: no upper boundary guard on escalation.
calc_no_upper_guard(performance_window, current_difficulty) ==
    IF Len(performance_window) < 3 THEN current_difficulty
    ELSE LET correct_count == sum(recent(performance_window))
         IN  IF correct_count >= 2 THEN current_difficulty + 1
             ELSE IF correct_count <= 1 /\ current_difficulty > 1 THEN current_difficulty - 1
             ELSE current_difficulty

\* Variant: the last four entries are summed instead of the last three.
calc_last_four(performance_window, current_difficulty) ==
    IF Len(performance_window) < 3 THEN current_difficulty
    ELSE LET correct_count ==
                 sum(IF Len(performance_window) <= 4 THEN performance_window
                     ELSE SubSeq(performance_window, Len(performance_window) - 3,
                                 Len(performance_window)))
         IN  IF correct_count >= 2 /\ current_difficulty < 3 THEN current_difficulty + 1
             ELSE IF correct_count <= 1 /\ current_difficulty > 1 THEN current_difficulty - 1
             ELSE current_difficulty

\* Variant: level 2 is held when exactly two of the last three are correct.
calc_hold_two_on_split(performance_window, current_difficulty) ==
    IF Len(performance_window) < 3 THEN current_difficulty
    ELSE LET correct_count == sum(recent(performance_window))
         IN  IF correct_count = 2 /\ current_difficulty = 2 THEN current_difficulty
             ELSE IF correct_count >= 2 /\ current_difficulty < 3 THEN current_difficulty + 1
             ELSE IF correct_count <= 1 /\ current_difficulty > 1 THEN current_difficulty - 1
             ELSE current_difficulty

\* app.py:243-263.
calculate_adaptive_difficulty(performance_window, current_difficulty) ==
    IF Len(performance_window) < 3 THEN current_difficulty
    ELSE LET correct_count == sum(recent(performance_window))
         IN  IF correct_count >= 2 /\ current_difficulty < 3 THEN current_difficulty + 1
             ELSE IF correct_count <= 1 /\ current_difficulty > 1 THEN current_difficulty - 1
             ELSE current_difficulty

-----------------------------------------------------------------------------
(* Collaborators: uploaded documents and the language model *)

\* An uploaded file: its name and its bytes.  "corrupt" bytes cannot be read.
Files ==
    { [name |-> "a.pdf", bytes |-> "text1"],
      [name |-> "a.pdf", bytes |-> "text2"],
      [name |-> "b.pdf", bytes |-> "text3"],
      [name |-> "b.pdf", bytes |-> "corrupt"] }

\* The file uploader holds no file.
NoFile == NoneRec

\* pdf_extractor.py extract_text_from_pdf: the text of the bytes, or an exception.
extract_text_from_pdf(pdf_file) ==
    IF pdf_file.bytes = "corrupt"
    THEN [raised |-> TRUE, text |-> None]
    ELSE [raised |-> FALSE, text |-> pdf_file.bytes]

\* What one chat call for a question can come back with: a JSON question, text
\* that none of the parsing strategies can read, or a failed call.
LLMOutputs == {"json_q1", "json_q2", "prose", "failure"}

\* Option keys offered by a question (the first is the radio's default).
Options == {"A", "B"}
FirstOption == "A"

\* Python's str.upper() on the answer letters.
upper(str) ==
    CASE str = "a" -> "A"
      [] str = "b" -> "B"
      [] OTHER -> str

\* What json.loads or a regular-expression search made of a piece of text: an
\* exception, no match, or the value parsed.  A value is a dict (a question)
\* or anything else JSON can hold (a list, a string, a number).
Fail == [kind |-> "fail"]
NoMatch == [kind |-> "nomatch"]
NoValue == [kind |-> "none"]
DictQ1 == [kind |-> "dict", question |-> "Q1", topic |-> "T1", correct_answer |-> "A"]
DictQ2 == [kind |-> "dict", question |-> "Q2", topic |-> "T2", correct_answer |-> "b"]
NonDict == [kind |-> "other"]
ParsedValues == {DictQ1, DictQ2, NonDict}

\* A response text, by what each strategy of _parse_json_response makes of
\* it: json.loads of the whole text, of the first fenced block, and of the
\* span from the first "{" to the last "}".  The three are independent except
\* that the span, beginning with "{", parses to a dict or not at all; that a
\* text which is itself a dict is its own span; and that a fenced dict puts
\* braces in the text.  ("[{..}]" parses directly to a list and by its span
\* to a dict; "Answer: {"y": "```{}```"}" gives one dict by its fenced block
\* and another by its span.)
ResponseTexts ==
    { t \in [direct : {Fail} \cup ParsedValues,
             fenced : {NoMatch, Fail} \cup ParsedValues,
             brace : {NoMatch, Fail, DictQ1, DictQ2}] :
        /\ t.direct.kind = "dict" => t.brace = t.direct
        /\ t.fenced.kind = "dict" => t.brace # NoMatch }

\* Variant: the brace span is tried before the fenced block.
next_strategy_brace_first(strategy) ==
    CASE strategy = "direct" -> "brace"
      [] strategy = "brace" -> "fenced"
      [] strategy = "fenced" -> "raised"

\* llm_handler.py:261-284: what follows a strategy that did not return.
next_strategy(strategy) ==
    CASE strategy = "direct" -> "fenced"
      [] strategy = "fenced" -> "brace"
      [] strategy = "brace" -> "raised"

\* llm_handler.py:261-281: one strategy applied to the text: it returns the
\* value it parsed, or control passes on.
parse_step(strategy, text) ==
    LET outcome == CASE strategy = "direct" -> text.direct
                     [] strategy = "fenced" -> text.fenced
                     [] strategy = "brace" -> text.brace
    IN  IF outcome.kind \in {"fail", "nomatch"}
        THEN [pc |-> next_strategy(strategy), result |-> NoValue]
        ELSE [pc |-> "returned", result |-> outcome]

\* Whether a step ended the parse.
parse_ended(step) == step.pc \in {"returned", "raised"}

RECURSIVE parse_from(_, _)
\* The strategies run from one of them to the return or the ValueError.
parse_from(strategy, text) ==
    IF parse_ended(parse_step(strategy, text))
    THEN parse_step(strategy, text)
    ELSE parse_from(next_strategy(strategy), text)

\* llm_handler.py:250-284 _parse_json_response.
parse_json_response(text) == parse_from("direct", text)

\* The text behind each output the session's chat call can have: a bare JSON
\* question, a question in a fenced block after some prose, and plain prose.
response_text_of(llm_output) ==
    CASE llm_output = "json_q1" ->
             [direct |-> DictQ1, fenced |-> NoMatch, brace |-> DictQ1]
      [] llm_output = "json_q2" ->
             [direct |-> Fail, fenced |-> DictQ2, brace |-> DictQ2]
      [] llm_output = "prose" ->
             [direct |-> Fail, fenced |-> NoMatch, brace |-> NoMatch]

\* Variant: the error record does not carry the error flag.
error_question_unflagged(difficulty, error_msg) ==
    [question |-> "Error", topic |-> "Unknown", correct_answer |-> "A",
     difficulty |-> difficulty, error |-> FALSE, error_message |-> error_msg]

\* llm_handler.py generate_question's error record.
error_question(difficulty, error_msg) ==
    [question |-> "Error", topic |-> "Unknown", correct_answer |-> "A",
     difficulty |-> difficulty, error |-> TRUE, error_message |-> error_msg]

\* llm_handler.py:120-138: the parser's result made into the question
\* record; the parser's ValueError and the item assignment on a value that
\* is no dict end in the error record.
question_from(parsed, difficulty) ==
    IF parsed.pc = "raised"
    THEN error_question(difficulty, "Could not parse JSON from response")
    ELSE IF parsed.result.kind # "dict"
    THEN error_question(difficulty, "object does not support item assignment")
    ELSE [question |-> parsed.result.question,
          topic |-> parsed.result.topic,
          correct_answer |-> parsed.result.correct_answer,
          difficulty |-> difficulty,
          error |-> FALSE,
          error_message |-> None]

\* llm_handler.py generate_question: one chat call, parsed, stamped with the
\* difficulty it was asked at; any exception, a failed call included, gives
\* the error record.
generate_question(difficulty, llm_output) ==
    IF llm_output = "failure"
    THEN error_question(difficulty, "call failed")
    ELSE question_from(parse_json_response(response_text_of(llm_output)), difficulty)

\* Variant: an answer whose feedback call failed is reported as correct.
evaluate_answer_failure_passes(user_answer, correct_answer, chat_ok) ==
    LET is_correct == upper(user_answer) = upper(correct_answer)
    IN  IF is_correct
        THEN [is_correct |-> TRUE, feedback |-> "well done", difficulty_change |-> None]
        ELSE IF chat_ok
        THEN [is_correct |-> FALSE, feedback |-> "llm feedback", difficulty_change |-> None]
        ELSE [is_correct |-> TRUE, feedback |-> "fallback", difficulty_change |-> None]

\* llm_handler.py evaluate_answer: correctness is decided locally; the chat
\* call for feedback is made only for an incorrect answer and its failure is
\* caught.
evaluate_answer(user_answer, correct_answer, chat_ok) ==
    LET is_correct == upper(user_answer) = upper(correct_answer)
    IN  IF is_correct
        THEN [is_correct |-> TRUE, feedback |-> "well done", difficulty_change |-> None]
        ELSE IF chat_ok
        THEN [is_correct |-> FALSE, feedback |-> "llm feedback", difficulty_change |-> None]
        ELSE [is_correct |-> FALSE, feedback |-> "fallback", difficulty_change |-> None]

-----------------------------------------------------------------------------
(* st.session_state *)

\* app.py init_session_state: the defaults.  asked_questions is kept as its
\* length (no branch reads its contents), saturating at MaxAsked.
init_session_state ==
    [pdf_content |-> None,
     pdf_name |-> None,
     api_key |-> None,
     llm |-> None,
     current_question |-> NoneRec,
     questions_history |-> <<>>,
     current_difficulty |-> 1,
     performance_window |-> <<>>,
     assessment_started |-> FALSE,
     assessment_complete |-> FALSE,
     total_questions |-> 0,
     correct_answers |-> 0,
     asked_questions |-> 0,
     show_feedback |-> FALSE,
     last_feedback |-> NoneRec,
     max_difficulty_reached |-> 1]

\* Variant: no branch for total == 0.
get_performance_metrics_unguarded(s) ==
    LET total == s.total_questions
        correct == s.correct_answers
        difficulties == [i \in 1..Len(s.questions_history) |->
                            s.questions_history[i].difficulty]
    IN  [total_questions |-> total,
         correct_answers |-> correct,
         accuracy_num |-> correct * 100,
         accuracy_den |-> total,
         avg_difficulty_num |-> sum(difficulties),
         avg_difficulty_den |-> Len(difficulties),
         max_difficulty_reached |-> s.max_difficulty_reached,
         current_difficulty |-> s.current_difficulty]

\* app.py get_performance_metrics; accuracy and the average are kept as
\* numerator and denominator (Python divides them as floats).
get_performance_metrics(s) ==
    LET total == s.total_questions
        correct == s.correct_answers
        difficulties == [i \in 1..Len(s.questions_history) |->
                            s.questions_history[i].difficulty]
    IN  [total_questions |-> total,
         correct_answers |-> correct,
         accuracy_num |-> IF total = 0 THEN 0 ELSE correct * 100,
         accuracy_den |-> IF total = 0 THEN 1 ELSE total,
         avg_difficulty_num |->
             IF total = 0 \/ difficulties = <<>> THEN 1 ELSE sum(difficulties),
         avg_difficulty_den |->
             IF total = 0 \/ difficulties = <<>> THEN 1 ELSE Len(difficulties),
         max_difficulty_reached |-> s.max_difficulty_reached,
         current_difficulty |-> s.current_difficulty]

-----------------------------------------------------------------------------
(* report_generator.py get_weak_topics *)

Topics == {"T1", "T2", "T3"}

RECURSIVE HistoriesOfLength(_)
\* All histories of exactly n entries, by the two keys get_weak_topics reads.
HistoriesOfLength(n) ==
    IF n = 0 THEN {<<>>}
    ELSE {Append(h, [topic |-> t, is_correct |-> c]) :
              h \in HistoriesOfLength(n - 1), t \in Topics, c \in BOOLEAN}

AllHistories == UNION {HistoriesOfLength(n) : n \in 0..MaxHistory}

\* Python's "x in list".
contains(list, x) == \E i \in 1..Len(list) : list[i] = x

\* Variant: no membership test before the append.
add_weak_topic_always(weak_topics, q) ==
    IF ~q.is_correct THEN Append(weak_topics, q.topic) ELSE weak_topics

\* report_generator.py:271-274: the body of the loop.
add_weak_topic(weak_topics, q) ==
    IF ~q.is_correct
    THEN IF ~contains(weak_topics, q.topic)
         THEN Append(weak_topics, q.topic)
         ELSE weak_topics
    ELSE weak_topics

RECURSIVE weak_topics_loop(_, _)
\* report_generator.py:270-274: the loop over the history, in order.
weak_topics_loop(questions_history, weak_topics) ==
    IF questions_history = <<>> THEN weak_topics
    ELSE weak_topics_loop(Tail(questions_history),
                          add_weak_topic(weak_topics, Head(questions_history)))

\* report_generator.py:259-275.
get_weak_topics(questions_history) == weak_topics_loop(questions_history, <<>>)

-----------------------------------------------------------------------------
(* Handlers of the script, as functions from session state to session state *)

\* app.py:303-306: a typed key that differs from the stored one is stored and
\* a client is made for it.
sidebar_api_key(s, typed) ==
    IF typed # "" /\ typed # s.api_key
    THEN [s EXCEPT !.api_key = typed, !.llm = typed]
    ELSE s

\* Variant: the reset on a new document leaves performance_window alone.
reset_on_new_pdf_keeps_window(s, content, name) ==
    [s EXCEPT !.pdf_content = content,
              !.pdf_name = name,
              !.assessment_started = FALSE,
              !.assessment_complete = FALSE,
              !.questions_history = <<>>,
              !.total_questions = 0,
              !.correct_answers = 0,
              !.current_difficulty = 1,
              !.asked_questions = 0,
              !.max_difficulty_reached = 1]

\* Variant: the reset on a new document leaves max_difficulty_reached alone.
reset_on_new_pdf_keeps_peak(s, content, name) ==
    [s EXCEPT !.pdf_content = content,
              !.pdf_name = name,
              !.assessment_started = FALSE,
              !.assessment_complete = FALSE,
              !.questions_history = <<>>,
              !.total_questions = 0,
              !.correct_answers = 0,
              !.current_difficulty = 1,
              !.performance_window = <<>>,
              !.asked_questions = 0]

\* app.py:323-334: the assignments made after a successful extraction.
reset_on_new_pdf(s, content, name) ==
    [s EXCEPT !.pdf_content = content,
              !.pdf_name = name,
              !.assessment_started = FALSE,
              !.assessment_complete = FALSE,
              !.questions_history = <<>>,
              !.total_questions = 0,
              !.correct_answers = 0,
              !.current_difficulty = 1,
              !.performance_window = <<>>,
              !.asked_questions = 0,
              !.max_difficulty_reached = 1]

\* Variant: the file's name is stored before its text is extracted.
sidebar_upload_names_first(s, file) ==
    IF file # NoFile /\ file.name # s.pdf_name
    THEN LET extracted == extract_text_from_pdf(file)
         IN  IF extracted.raised THEN [s EXCEPT !.pdf_name = file.name]
             ELSE reset_on_new_pdf(s, extracted.text, file.name)
    ELSE s

\* app.py:318-339: a held file whose name differs from pdf_name is extracted;
\* on success the document is stored and the assessment reset, on an exception
\* nothing is assigned.
sidebar_upload(s, file) ==
    IF file # NoFile /\ file.name # s.pdf_name
    THEN LET extracted == extract_text_from_pdf(file)
         IN  IF extracted.raised THEN s
             ELSE reset_on_new_pdf(s, extracted.text, file.name)
    ELSE s

\* app.py:427-436: with no feedback showing, every run asks the model for a
\* question at the current difficulty and makes it the current question.
generate_if_needed(s, llm_output) ==
    IF s.current_question = NoneRec \/ s.show_feedback = FALSE
    THEN IF ~s.show_feedback
         THEN [s EXCEPT !.current_question =
                            generate_question(s.current_difficulty, llm_output),
                        !.asked_questions =
                            IF @ < MaxAsked THEN @ + 1 ELSE @]
         ELSE s
    ELSE s

\* Variant: the peak is never raised.
track_max_never(max_difficulty_reached, new_difficulty) == max_difficulty_reached

\* app.py:541-542: the peak follows a new difficulty above it.
track_max(max_difficulty_reached, new_difficulty) ==
    IF new_difficulty > max_difficulty_reached THEN new_difficulty
    ELSE max_difficulty_reached

\* Variant: the controller is consulted before the bit is appended.
submit_answer_stale_window(s, user_answer, chat_ok) ==
    LET question == s.current_question
        feedback == evaluate_answer(user_answer, question.correct_answer, chat_ok)
        is_correct == feedback.is_correct
        window == Append(s.performance_window, IF is_correct THEN 1 ELSE 0)
        new_difficulty ==
            calculate_adaptive_difficulty(s.performance_window, s.current_difficulty)
        entry == [question |-> question.question,
                  topic |-> question.topic,
                  difficulty |-> question.difficulty,
                  user_answer |-> user_answer,
                  correct_answer |-> question.correct_answer,
                  is_correct |-> is_correct]
    IN  [s EXCEPT !.total_questions = @ + 1,
                  !.correct_answers = IF is_correct THEN @ + 1 ELSE @,
                  !.performance_window = window,
                  !.max_difficulty_reached = track_max(@, new_difficulty),
                  !.questions_history = Append(@, entry),
                  !.current_difficulty = new_difficulty,
                  !.last_feedback =
                      [feedback EXCEPT !.difficulty_change =
                          IF new_difficulty > s.current_difficulty THEN "increased"
                          ELSE IF new_difficulty < s.current_difficulty THEN "decreased"
                          ELSE None],
                  !.show_feedback = TRUE]

\* Variant: the history entry records the difficulty after the update.
submit_answer_records_new_difficulty(s, user_answer, chat_ok) ==
    LET question == s.current_question
        feedback == evaluate_answer(user_answer, question.correct_answer, chat_ok)
        is_correct == feedback.is_correct
        window == Append(s.performance_window, IF is_correct THEN 1 ELSE 0)
        new_difficulty == calculate_adaptive_difficulty(window, s.current_difficulty)
        entry == [question |-> question.question,
                  topic |-> question.topic,
                  difficulty |-> new_difficulty,
                  user_answer |-> user_answer,
                  correct_answer |-> question.correct_answer,
                  is_correct |-> is_correct]
    IN  [s EXCEPT !.total_questions = @ + 1,
                  !.correct_answers = IF is_correct THEN @ + 1 ELSE @,
                  !.performance_window = window,
                  !.max_difficulty_reached = track_max(@, new_difficulty),
                  !.questions_history = Append(@, entry),
                  !.current_difficulty = new_difficulty,
                  !.last_feedback =
                      [feedback EXCEPT !.difficulty_change =
                          IF new_difficulty > s.current_difficulty THEN "increased"
                          ELSE IF new_difficulty < s.current_difficulty THEN "decreased"
                          ELSE None],
                  !.show_feedback = TRUE]

\* app.py:514-565: the body of the Submit Answer button.
submit_answer(s, user_answer, chat_ok) ==
    LET question == s.current_question
        feedback == evaluate_answer(user_answer, question.correct_answer, chat_ok)
        is_correct == feedback.is_correct
        window == Append(s.performance_window, IF is_correct THEN 1 ELSE 0)
        new_difficulty == calculate_adaptive_difficulty(window, s.current_difficulty)
        entry == [question |-> question.question,
                  topic |-> question.topic,
                  difficulty |-> question.difficulty,
                  user_answer |-> user_answer,
                  correct_answer |-> question.correct_answer,
                  is_correct |-> is_correct]
    IN  [s EXCEPT !.total_questions = @ + 1,
                  !.correct_answers = IF is_correct THEN @ + 1 ELSE @,
                  !.performance_window = window,
                  !.max_difficulty_reached = track_max(@, new_difficulty),
                  !.questions_history = Append(@, entry),
                  !.current_difficulty = new_difficulty,
                  !.last_feedback =
                      [feedback EXCEPT !.difficulty_change =
                          IF new_difficulty > s.current_difficulty THEN "increased"
                          ELSE IF new_difficulty < s.current_difficulty THEN "decreased"
                          ELSE None],
                  !.show_feedback = TRUE]

\* Variant: Next Question also empties the history.
next_question_clears_history(s) ==
    [s EXCEPT !.current_question = NoneRec,
              !.show_feedback = FALSE,
              !.last_feedback = NoneRec,
              !.questions_history = <<>>]

\* app.py:601-604: the body of the Next Question button.
next_question(s) ==
    [s EXCEPT !.current_question = NoneRec,
              !.show_feedback = FALSE,
              !.last_feedback = NoneRec]

\* Variant: the restart leaves correct_answers alone.
start_new_assessment_keeps_correct(s) ==
    [s EXCEPT !.assessment_started = FALSE,
              !.assessment_complete = FALSE,
              !.questions_history = <<>>,
              !.total_questions = 0,
              !.current_difficulty = 1,
              !.performance_window = <<>>,
              !.current_question = NoneRec,
              !.asked_questions = 0,
              !.max_difficulty_reached = 1,
              !.show_feedback = FALSE,
              !.last_feedback = NoneRec]

\* app.py:727-740: the body of the Start New Assessment button.
start_new_assessment(s) ==
    [s EXCEPT !.assessment_started = FALSE,
              !.assessment_complete = FALSE,
              !.questions_history = <<>>,
              !.total_questions = 0,
              !.correct_answers = 0,
              !.current_difficulty = 1,
              !.performance_window = <<>>,
              !.current_question = NoneRec,
              !.asked_questions = 0,
              !.max_difficulty_reached = 1,
              !.show_feedback = FALSE,
              !.last_feedback = NoneRec]

-----------------------------------------------------------------------------
(* One run of the script.  click names the button whose press started the  *)
(* run ("none" for any other cause); a renderer returns the state it       *)
(* leaves and whether it called st.rerun().                                *)

\* A call to the model and whether it returned.
Call(op, ok) == [op |-> op, ok |-> ok]

\* app.py:410-421.
render_welcome(s, click) ==
    IF s.api_key # None /\ s.pdf_content # None /\ click = "start"
    THEN [s |-> [s EXCEPT !.assessment_started = TRUE], rerun |-> TRUE, calls |-> <<>>]
    ELSE [s |-> s, rerun |-> FALSE, calls |-> <<>>]

\* app.py:427-436: the chat call generate_question makes, when the run makes it.
generate_calls(s, llm_output) ==
    IF ~s.show_feedback
    THEN <<Call("generate_question", llm_output # "failure")>>
    ELSE <<>>

\* llm_handler.py:163-187: the feedback call, made for an incorrect answer only.
feedback_calls(s, user_answer, chat_ok) ==
    IF upper(user_answer) = upper(s.current_question.correct_answer)
    THEN <<>>
    ELSE <<Call("evaluate_answer", chat_ok)>>

\* app.py:424-610.
render_question(s, click, user_answer, llm_output, chat_ok) ==
    LET s1 == generate_if_needed(s, llm_output)
        question == s1.current_question
        generated == generate_calls(s, llm_output)
    IN  IF question.error
        THEN IF click = "try_again"
             THEN [s |-> [s1 EXCEPT !.current_question = NoneRec], rerun |-> TRUE,
                   calls |-> generated]
             ELSE [s |-> s1, rerun |-> FALSE, calls |-> generated]
        ELSE IF ~s1.show_feedback
        THEN IF click = "submit"
             THEN [s |-> submit_answer(s1, user_answer, chat_ok), rerun |-> TRUE,
                   calls |-> generated \o feedback_calls(s1, user_answer, chat_ok)]
             ELSE [s |-> s1, rerun |-> FALSE, calls |-> generated]
        ELSE IF click = "next"
             THEN [s |-> next_question(s1), rerun |-> TRUE, calls |-> generated]
             ELSE IF click = "finish"
             THEN [s |-> [s1 EXCEPT !.assessment_complete = TRUE], rerun |-> TRUE,
                   calls |-> generated]
             ELSE [s |-> s1, rerun |-> FALSE, calls |-> generated]

\* app.py:613-741: Generate PDF Report asks the model for suggestions, reads
\* the state and assigns nothing.
render_results(s, click, chat_ok) ==
    IF click = "generate_report"
    THEN [s |-> s, rerun |-> FALSE,
          calls |-> <<Call("generate_improvement_suggestions", chat_ok)>>]
    ELSE IF click = "start_new"
    THEN [s |-> start_new_assessment(s), rerun |-> TRUE, calls |-> <<>>]
    ELSE [s |-> s, rerun |-> FALSE, calls |-> <<>>]

\* app.py:744-754 main, with render_sidebar's two handlers first.
main(s, typed, file, click, user_answer, llm_output, chat_ok) ==
    LET s1 == sidebar_upload(sidebar_api_key(s, typed), file)
    IN  IF s1.assessment_complete THEN render_results(s1, click, chat_ok)
        ELSE IF s1.assessment_started
        THEN render_question(s1, click, user_answer, llm_output, chat_ok)
        ELSE render_welcome(s1, click)

\* What the api key text input returns when the learner has not typed in it.
key_input(s) == IF s.api_key = None THEN "" ELSE s.api_key

\* What the page shows after a run that left state s.
Page(s) ==
    IF s.assessment_complete THEN "results"
    ELSE IF s.assessment_started THEN "question"
    ELSE "welcome"

ErrorShown(s) == Page(s) = "question" /\ s.current_question.error
RadioShown(s) == Page(s) = "question" /\ ~s.current_question.error /\ ~s.show_feedback
FeedbackShown(s) == Page(s) = "question" /\ ~s.current_question.error /\ s.show_feedback
StartShown(s) == Page(s) = "welcome" /\ s.api_key # None /\ s.pdf_content # None

-----------------------------------------------------------------------------
(* The session: one action per learner interaction *)

ApiKeys == {"key1"}

-----------------------------------------------------------------------------
(* snap_learn.py: the two endpoints that ask the model for exactly 10 MCQs. *)
(* An MCQ is kept as its position in the list the model returned.           *)

\* snap_learn.py:129,132: the count /revise compares with and slices to.
RequiredMcqs == 10

NoRequest == [endpoint |-> "none"]
NoResponse == [status |-> 0, detail |-> "", mcqs |-> <<>>]

\* The list of n MCQs the model returned.
mcq_list(n) == [i \in 1..n |-> i]

\* mcqs[:10]
first_required(mcqs) ==
    [i \in 1..(IF Len(mcqs) < RequiredMcqs THEN Len(mcqs) ELSE RequiredMcqs) |-> mcqs[i]]

HTTPException(status, detail) == [status |-> status, detail |-> detail, mcqs |-> <<>>]

\* What the model's text is to json.loads: empty after strip, not JSON,
\* JSON, or JSON with text around it.
RawKinds == {"empty", "invalid", "json", "wrapped"}

\* A call of /revise/{chunk_id}: whether the chunk is stored, the text
\* the model returns and, if it is JSON, its key_concepts and mcqs.
ReviseRequests ==
    [endpoint : {"revise"},
     found : BOOLEAN,
     raw : RawKinds,
     key_concepts : {"absent", "empty", "some"},
     has_list : BOOLEAN,
     items : 0..MaxMcqs]

\* A call of /generate-quick-pdf/{doc}: whether the document has chunks,
\* whether the concepts and formulas calls return text, the text of the MCQ
\* call and, if JSON is recovered from it, its "q" list.
GenerateRequests ==
    [endpoint : {"generate"},
     found : BOOLEAN,
     concepts_ok : BOOLEAN,
     formulas_ok : BOOLEAN,
     raw : RawKinds,
     has_list : BOOLEAN,
     items : 0..MaxMcqs]

\* snap_learn.py revise, 70-133.
revise(request) ==
    IF ~request.found THEN HTTPException(404, "Chunk not found")
    ELSE IF request.raw = "empty"
        THEN HTTPException(500, "AI returned empty response")
    ELSE IF request.raw # "json"
        THEN HTTPException(500, "Invalid JSON from AI")
    ELSE IF request.key_concepts # "some"
        THEN HTTPException(500, "No key concepts generated")
    ELSE LET mcqs == IF request.has_list THEN mcq_list(request.items) ELSE <<>>
         IN  IF Len(mcqs) < RequiredMcqs
                 THEN HTTPException(500, "AI returned only len(mcqs) MCQs")
             ELSE [status |-> 200, detail |-> "analysis",
                   mcqs |-> first_required(mcqs)]

\* snap_learn.py generate, 137-202: every item of mcqs["q"] is written to
\* the PDF; a response without "q" raises KeyError, which the framework
\* answers with its own 500.
generate(request) ==
    IF ~request.found THEN HTTPException(404, "Not Found")
    ELSE IF ~request.concepts_ok \/ ~request.formulas_ok \/ request.raw = "empty"
        THEN HTTPException(500, "AI returned empty response")
    ELSE IF request.raw = "invalid"
        THEN HTTPException(500, "Invalid MCQ JSON from AI")
    ELSE IF ~request.has_list
        THEN HTTPException(500, "Internal Server Error")
    ELSE [status |-> 200, detail |-> "pdf",
          mcqs |-> mcq_list(request.items)]

-----------------------------------------------------------------------------
(* Two learners in one process.  st.session_state is one mapping per       *)
(* browser session; a list stored in it is a Python object, which          *)
(* append() changes in place and an assignment replaces.  A session keeps  *)
(* its three lists as references into the heap of list objects.            *)

SessionIds == {1, 2}

\* The keys of st.session_state that hold lists (app.py:225,227,233).
ListKeys == {"questions_history", "performance_window", "asked_questions"}

\* Variant: one list object per key serves every session (as a module-level
\* defaults dict would).
default_list_shared(sid, key) == [owner |-> 1, key |-> key, by |-> "init_session_state"]

\* app.py:219-236: the list object a call of init_session_state stores under
\* key for session sid.  defaults is built inside the call, so each call
\* evaluates its own [] literals.
default_list(sid, key) == [owner |-> sid, key |-> key, by |-> "init_session_state"]

\* Variant: every assignment stores the same module-level empty list.
assigned_list_shared(sid, key) == [owner |-> 1, key |-> key, by |-> "assignment"]

\* app.py:328,332,333 and 731,735,737: the list object an assignment
\* `st.session_state.<key> = []` of session sid creates.  The object it
\* replaces has no other holder, so one identity per session and key serves
\* every such assignment.
assigned_list(sid, key) == [owner |-> sid, key |-> key, by |-> "assignment"]

Refs ==
    {default_list(sid, key) : sid \in SessionIds, key \in ListKeys}
        \cup {assigned_list(sid, key) : sid \in SessionIds, key \in ListKeys}

\* [] as this model keeps the list under ref.key (asked_questions as its length).
empty_list(ref) == IF ref.key = "asked_questions" THEN 0 ELSE <<>>

\* app.py:217-240 as run first in session sid: the defaults, with the lists
\* by reference, and an empty file uploader.
stored_session(sid) ==
    [state |-> [init_session_state EXCEPT
                    !.questions_history = default_list(sid, "questions_history"),
                    !.performance_window = default_list(sid, "performance_window"),
                    !.asked_questions = default_list(sid, "asked_questions")],
     uploaded_file |-> NoFile]

\* st.session_state of a session as the script reads it: every list
\* reference followed.
session_view(stored, objects) ==
    [stored.state EXCEPT !.questions_history = objects[@],
                         !.performance_window = objects[@],
                         !.asked_questions = objects[@]]

\* Whether a run started on state s makes the list assignments: the
\* upload handler after a successful extraction (app.py:319-334) or the
\* Start New Assessment button (app.py:727-740).
assigns_lists(s, file, click) ==
    \/ /\ file # NoFile
       /\ file.name # s.pdf_name
       /\ ~extract_text_from_pdf(file).raised
    \/ /\ sidebar_upload(s, file).assessment_complete
       /\ click = "start_new"

\* The list object session sid holds under key after a run: a new one if
\* the run assigned the key, else the one it held (changed in place).
held_after(stored, sid, key, assigned) ==
    IF assigned THEN assigned_list(sid, key) ELSE stored.state[key]

\* st.session_state of session sid after a run that left state s.
stored_after(stored, sid, s, file, assigned) ==
    [state |-> [s EXCEPT
                    !.questions_history = held_after(stored, sid, "questions_history", assigned),
                    !.performance_window = held_after(stored, sid, "performance_window", assigned),
                    !.asked_questions = held_after(stored, sid, "asked_questions", assigned)],
     uploaded_file |-> file]

\* The heap after that run: the objects the session holds have the
\* contents the run left, every other object is as it was.
heap_after(objects, stored, sid, s, assigned) ==
    [ref \in Refs |->
        IF ref = held_after(stored, sid, "questions_history", assigned)
            THEN s.questions_history
        ELSE IF ref = held_after(stored, sid, "performance_window", assigned)
            THEN s.performance_window
        ELSE IF ref = held_after(stored, sid, "asked_questions", assigned)
            THEN s.asked_questions
        ELSE objects[ref]]

-----------------------------------------------------------------------------
\* The controller harness at rest.
ControllerIdle ==
    /\ arg_window = <<>>
    /\ arg_window2 = <<>>
    /\ arg_current = 1
    /\ ret = 0
    /\ ret2 = 0

\* The weak-topics harness at rest.
WeakIdle ==
    /\ arg_history = <<>>
    /\ ret_topics = <<>>

\* The parser at rest.
ParserIdle ==
    /\ response_text = [direct |-> Fail, fenced |-> NoMatch, brace |-> NoMatch]
    /\ parse_pc = "idle"
    /\ parse_result = NoValue
    /\ attempted = <<>>

\* The snap_learn endpoints at rest.
McqIdle ==
    /\ mcq_request = NoRequest
    /\ mcq_response = NoResponse

\* The two-learner process before either learner has acted.
TwoIdle ==
    /\ sessions = [sid \in SessionIds |-> stored_session(sid)]
    /\ heap = [ref \in Refs |-> empty_list(ref)]

HarnessIdle ==
    /\ ControllerIdle
    /\ called = FALSE
    /\ WeakIdle
    /\ ParserIdle
    /\ McqIdle
    /\ TwoIdle

\* No interaction on record.
NothingRecorded == [click |-> "none", calls |-> <<>>]

\* The session before the first run of the script.
SessionFresh ==
    /\ session_state = init_session_state
    /\ uploaded_file = NoFile
    /\ answer = FirstOption
    /\ recording = FALSE
    /\ last_interaction = NothingRecorded

Init ==
    /\ SessionFresh
    /\ HarnessIdle

\* What an interaction leaves, given the result of the run it started.
Ends(result, click, calls) ==
    /\ session_state' = result.s
    /\ last_interaction' =
           IF recording
           THEN [click |-> click, calls |-> calls \o result.calls]
           ELSE last_interaction

\* The run after the one an interaction started, if that one called st.rerun().
Runs(first, Outputs, file, click, user_answer, chat_ok) ==
    IF first.rerun
    THEN \E out2 \in Outputs :
             Ends(main(first.s, key_input(first.s), file, "none",
                       user_answer, out2, chat_ok),
                  click, first.calls)
    ELSE Ends(first, click, <<>>)

\* The runs one interaction causes: the run it starts and, if that run called
\* st.rerun(), the run that follows (no handler reruns twice in a row).  Each
\* run that asks the model for a question gets its own output; ChatOks are
\* the outcomes the feedback call may have.  The radio keeps its value only
\* while it is rendered.  Outputs are the outputs the model may give.
InteractWith(Outputs, typed, file, click, user_answer, ChatOks) ==
    \E out1 \in Outputs, chat_ok \in ChatOks :
        /\ Runs(main(session_state, typed, file, click, user_answer, out1, chat_ok),
                Outputs, file, click, user_answer, chat_ok)
        /\ uploaded_file' = file
        /\ answer' = IF RadioShown(session_state') THEN user_answer ELSE FirstOption
        /\ recording' = recording
        /\ UNCHANGED harnessVars

Interact(typed, file, click, user_answer, ChatOks) ==
    InteractWith(LLMOutputs, typed, file, click, user_answer, ChatOks)

EnterApiKey ==
    \E k \in ApiKeys :
        /\ k # session_state.api_key
        /\ Interact(k, uploaded_file, "none", answer, {TRUE})

UploadFile ==
    \E f \in Files :
        /\ f # uploaded_file
        /\ Interact(key_input(session_state), f, "none", answer, {TRUE})

RemoveFile ==
    /\ uploaded_file # NoFile
    /\ Interact(key_input(session_state), NoFile, "none", answer, {TRUE})

ClickStart ==
    /\ StartShown(session_state)
    /\ Interact(key_input(session_state), uploaded_file, "start", answer, {TRUE})

SelectAnswer ==
    \E o \in Options :
        /\ RadioShown(session_state)
        /\ o # answer
        /\ Interact(key_input(session_state), uploaded_file, "none", o, {TRUE})

ClickSubmit ==
    /\ RadioShown(session_state)
    /\ Len(session_state.questions_history) <
           (IF recording THEN MaxRecorded ELSE MaxAnswers)
    /\ Interact(key_input(session_state), uploaded_file, "submit", answer, BOOLEAN)

ClickTryAgain ==
    /\ ErrorShown(session_state)
    /\ Interact(key_input(session_state), uploaded_file, "try_again", answer, {TRUE})

ClickNext ==
    /\ FeedbackShown(session_state)
    /\ Interact(key_input(session_state), uploaded_file, "next", answer, {TRUE})

ClickFinish ==
    /\ FeedbackShown(session_state)
    /\ Interact(key_input(session_state), uploaded_file, "finish", answer, {TRUE})

ClickGenerateReport ==
    /\ Page(session_state) = "results"
    /\ Interact(key_input(session_state), uploaded_file, "generate_report", answer, BOOLEAN)

ClickStartNew ==
    /\ Page(session_state) = "results"
    /\ Interact(key_input(session_state), uploaded_file, "start_new", answer, {TRUE})

Next ==
    \/ EnterApiKey
    \/ UploadFile
    \/ RemoveFile
    \/ ClickStart
    \/ SelectAnswer
    \/ ClickSubmit
    \/ ClickTryAgain
    \/ ClickNext
    \/ ClickFinish
    \/ ClickGenerateReport
    \/ ClickStartNew

Spec == Init /\ [][Next]_vars

\* The same session with its interactions recorded.
RecordedInit ==
    /\ session_state = init_session_state
    /\ uploaded_file = NoFile
    /\ answer = FirstOption
    /\ recording = TRUE
    /\ last_interaction = NothingRecorded
    /\ HarnessIdle

RecordedSpec == RecordedInit /\ [][Next]_vars

-----------------------------------------------------------------------------
(* A session of answers alone: the document stays, the model always        *)
(* returns the same well-formed question, and the learner answers, reads   *)
(* the feedback and goes on.                                               *)

\* The one output of a model that never fails.
SteadyOutputs == {"json_q1"}

SteadyFile == [name |-> "a.pdf", bytes |-> "text1"]

\* The session after the key was typed, a document uploaded and Start
\* Assessment pressed: the runs of main those three interactions cause.
started_session ==
    main(main(main(main(init_session_state,
                        "key1", NoFile, "none", FirstOption, "json_q1", TRUE).s,
                   "key1", SteadyFile, "none", FirstOption, "json_q1", TRUE).s,
              "key1", SteadyFile, "start", FirstOption, "json_q1", TRUE).s,
         "key1", SteadyFile, "none", FirstOption, "json_q1", TRUE).s

StreakInit ==
    /\ session_state = started_session
    /\ uploaded_file = SteadyFile
    /\ answer = FirstOption
    /\ recording = FALSE
    /\ last_interaction = NothingRecorded
    /\ HarnessIdle

StreakSelect ==
    \E o \in Options :
        /\ RadioShown(session_state)
        /\ o # answer
        /\ InteractWith(SteadyOutputs, key_input(session_state), uploaded_file,
                        "none", o, {TRUE})

StreakSubmit ==
    /\ RadioShown(session_state)
    /\ Len(session_state.questions_history) < MaxStreak
    /\ InteractWith(SteadyOutputs, key_input(session_state), uploaded_file,
                    "submit", answer, {TRUE})

StreakNextQuestion ==
    /\ FeedbackShown(session_state)
    /\ InteractWith(SteadyOutputs, key_input(session_state), uploaded_file,
                    "next", answer, {TRUE})

StreakNext == StreakSelect \/ StreakSubmit \/ StreakNextQuestion

StreakSpec == StreakInit /\ [][StreakNext]_vars

-----------------------------------------------------------------------------
(* The controller applied to arbitrary arguments: the inputs are drawn in  *)
(* the initial state, the one action applies the controller to them.       *)

CalcInit ==
    /\ SessionFresh
    /\ McqIdle
    /\ TwoIdle
    /\ WeakIdle
    /\ ParserIdle
    /\ arg_window \in AllWindows
    /\ arg_window2 \in AllWindows
    /\ arg_current \in Difficulties
    /\ ret = 0
    /\ ret2 = 0
    /\ called = FALSE

CallController ==
    /\ ~called
    /\ ret' = calculate_adaptive_difficulty(arg_window, arg_current)
    /\ ret2' = calculate_adaptive_difficulty(arg_window2, arg_current)
    /\ called' = TRUE
    /\ UNCHANGED <<arg_window, arg_window2, arg_current>>
    /\ UNCHANGED <<sessionVars, weakVars, parserVars, mcqVars, twoVars>>

CalcNext == CallController

CalcSpec == CalcInit /\ [][CalcNext]_vars

-----------------------------------------------------------------------------
(* get_weak_topics applied to arbitrary histories *)

WeakInit ==
    /\ SessionFresh
    /\ McqIdle
    /\ TwoIdle
    /\ ControllerIdle
    /\ ParserIdle
    /\ called = FALSE
    /\ arg_history \in AllHistories
    /\ ret_topics = <<>>

CallWeakTopics ==
    /\ ~called
    /\ ret_topics' = get_weak_topics(arg_history)
    /\ called' = TRUE
    /\ UNCHANGED <<arg_history, sessionVars, controllerVars, parserVars, mcqVars, twoVars>>

WeakNext == CallWeakTopics

WeakSpec == WeakInit /\ [][WeakNext]_vars

-----------------------------------------------------------------------------
(* _parse_json_response on arbitrary response texts, one strategy per step *)

ParseInit ==
    /\ SessionFresh
    /\ McqIdle
    /\ TwoIdle
    /\ ControllerIdle
    /\ WeakIdle
    /\ called = FALSE
    /\ response_text \in ResponseTexts
    /\ parse_pc = "direct"
    /\ parse_result = NoValue
    /\ attempted = <<>>

\* llm_handler.py:261-265: json.loads of the whole text.
TryDirect ==
    /\ parse_pc = "direct"
    /\ parse_pc' = parse_step("direct", response_text).pc
    /\ parse_result' = parse_step("direct", response_text).result
    /\ attempted' = Append(attempted, "direct")
    /\ UNCHANGED <<response_text, sessionVars, controllerVars, called, weakVars, mcqVars, twoVars>>

\* llm_handler.py:268-273: json.loads of the first fenced block.
TryFenced ==
    /\ parse_pc = "fenced"
    /\ parse_pc' = parse_step("fenced", response_text).pc
    /\ parse_result' = parse_step("fenced", response_text).result
    /\ attempted' = Append(attempted, "fenced")
    /\ UNCHANGED <<response_text, sessionVars, controllerVars, called, weakVars, mcqVars, twoVars>>

\* llm_handler.py:276-281: json.loads of the span between the outer braces.
TryBrace ==
    /\ parse_pc = "brace"
    /\ parse_pc' = parse_step("brace", response_text).pc
    /\ parse_result' = parse_step("brace", response_text).result
    /\ attempted' = Append(attempted, "brace")
    /\ UNCHANGED <<response_text, sessionVars, controllerVars, called, weakVars, mcqVars, twoVars>>

ParseNext == TryDirect \/ TryFenced \/ TryBrace

ParseSpec == ParseInit /\ [][ParseNext]_vars

-----------------------------------------------------------------------------
(* The snap_learn endpoints applied to arbitrary requests: the request and *)
(* the model's answer to it are drawn in the initial state, one action     *)
(* calls the endpoint.                                                     *)

McqInit ==
    /\ SessionFresh
    /\ ControllerIdle
    /\ WeakIdle
    /\ ParserIdle
    /\ TwoIdle
    /\ called = FALSE
    /\ mcq_request \in ReviseRequests \cup GenerateRequests
    /\ mcq_response = NoResponse

\* GET /snaplearn/revise/{chunk_id}
CallRevise ==
    /\ ~called
    /\ mcq_request.endpoint = "revise"
    /\ mcq_response' = revise(mcq_request)
    /\ called' = TRUE
    /\ UNCHANGED <<mcq_request, sessionVars, controllerVars, weakVars, parserVars, twoVars>>

\* GET /snaplearn/generate-quick-pdf/{doc}
CallGenerate ==
    /\ ~called
    /\ mcq_request.endpoint = "generate"
    /\ mcq_response' = generate(mcq_request)
    /\ called' = TRUE
    /\ UNCHANGED <<mcq_request, sessionVars, controllerVars, weakVars, parserVars, twoVars>>

McqNext ==
    \/ CallRevise
    \/ CallGenerate

McqSpec == McqInit /\ [][McqNext]_vars

-----------------------------------------------------------------------------
(* Two learner sessions interleaved in one process.  Each action is one    *)
(* interaction of one learner, run on that session's st.session_state; the *)
(* Streamlit server runs one script run at a time per session and the      *)
(* script shares no module-level state, so runs of different sessions are  *)
(* taken one after the other.                                              *)

\* What the model may return to a session sharing the process.
SharedOutputs == {"json_q1", "failure"}

\* The files either learner may upload.
SharedFiles ==
    { [name |-> "a.pdf", bytes |-> "text1"],
      [name |-> "b.pdf", bytes |-> "text3"] }

\* st.session_state as session sid reads it.
View(sid) == session_view(sessions[sid], heap)

\* The state the interaction leaves: that of the run after the first, if
\* the first called st.rerun().
second_run(first, file, user_answer, out2, chat_ok) ==
    IF first.rerun
    THEN main(first.s, key_input(first.s), file, "none", user_answer, out2, chat_ok).s
    ELSE first.s

\* Session sid keeps the state left and the lists as the run held them.
SharedEnds(sid, left, file, assigned) ==
    /\ sessions' = [sessions EXCEPT
                        ![sid] = stored_after(sessions[sid], sid, left, file, assigned)]
    /\ heap' = heap_after(heap, sessions[sid], sid, left, assigned)
    /\ UNCHANGED <<sessionVars, controllerVars, called, weakVars, parserVars, mcqVars>>

SharedRuns(sid, s, typed, file, click, user_answer, out1, out2, chat_ok) ==
    SharedEnds(sid,
               second_run(main(s, typed, file, click, user_answer, out1, chat_ok),
                          file, user_answer, out2, chat_ok),
               file,
               assigns_lists(s, file, click))

\* One interaction of the learner of session sid.
SharedInteract(sid, typed, file, click, user_answer, ChatOks) ==
    \E out1 \in SharedOutputs, out2 \in SharedOutputs, chat_ok \in ChatOks :
        SharedRuns(sid, View(sid), typed, file, click, user_answer, out1, out2, chat_ok)

SharedEnterApiKey(sid) ==
    \E k \in ApiKeys :
        /\ k # View(sid).api_key
        /\ SharedInteract(sid, k, sessions[sid].uploaded_file, "none", FirstOption, {TRUE})

SharedUploadFile(sid) ==
    \E f \in SharedFiles :
        /\ f # sessions[sid].uploaded_file
        /\ SharedInteract(sid, key_input(View(sid)), f, "none", FirstOption, {TRUE})

SharedClickStart(sid) ==
    /\ StartShown(View(sid))
    /\ SharedInteract(sid, key_input(View(sid)), sessions[sid].uploaded_file,
                      "start", FirstOption, {TRUE})

\* The learner's choice in the radio is still selected when Submit is pressed.
SharedClickSubmit(sid) ==
    \E o \in Options :
        /\ RadioShown(View(sid))
        /\ Len(View(sid).questions_history) < MaxShared
        /\ SharedInteract(sid, key_input(View(sid)), sessions[sid].uploaded_file,
                          "submit", o, BOOLEAN)

SharedClickTryAgain(sid) ==
    /\ ErrorShown(View(sid))
    /\ SharedInteract(sid, key_input(View(sid)), sessions[sid].uploaded_file,
                      "try_again", FirstOption, {TRUE})

SharedClickNext(sid) ==
    /\ FeedbackShown(View(sid))
    /\ SharedInteract(sid, key_input(View(sid)), sessions[sid].uploaded_file,
                      "next", FirstOption, {TRUE})

SharedClickFinish(sid) ==
    /\ FeedbackShown(View(sid))
    /\ SharedInteract(sid, key_input(View(sid)), sessions[sid].uploaded_file,
                      "finish", FirstOption, {TRUE})

SharedClickStartNew(sid) ==
    /\ Page(View(sid)) = "results"
    /\ SharedInteract(sid, key_input(View(sid)), sessions[sid].uploaded_file,
                      "start_new", FirstOption, {TRUE})

\* Any interaction of the learner of session sid.
SharedStep(sid) ==
    \/ SharedEnterApiKey(sid)
    \/ SharedUploadFile(sid)
    \/ SharedClickStart(sid)
    \/ SharedClickSubmit(sid)
    \/ SharedClickTryAgain(sid)
    \/ SharedClickNext(sid)
    \/ SharedClickFinish(sid)
    \/ SharedClickStartNew(sid)

SharedInit ==
    /\ SessionFresh
    /\ HarnessIdle

SharedNext == \E sid \in SessionIds : SharedStep(sid)

SharedSpec == SharedInit /\ [][SharedNext]_vars

\* Number of correct answers among the three most recent entries of w.
LastThreeCorrect(w) == w[Len(w) - 2] + w[Len(w) - 1] + w[Len(w)]

-----------------------------------------------------------------------------
(* Properties *)

\* The controller returns the current difficulty on every window shorter
\* than 3, at every current difficulty.
ShortWindowsHeld ==
    \A w \in ShortWindows, c \in Difficulties :
        calculate_adaptive_difficulty(w, c) = c

\* The controller's result is in {1,2,3} on every window, at every current
\* difficulty in {1,2,3}.
ResultsInRange ==
    \A w \in AllWindows, c \in Difficulties :
        calculate_adaptive_difficulty(w, c) \in Difficulties

\* C1: for every current difficulty in {1,2,3} and every window with fewer
\* than 3 entries the controller returns the current difficulty unchanged,
\* and so in a session the difficulty is still the starting value 1 while
\* fewer than three answers are recorded (after the first and the second
\* answer, whatever their correctness).
C1_ShortWindowHolds ==
    /\ ShortWindowsHeld
    /\ Len(session_state.performance_window) < 3 =>
           session_state.current_difficulty = 1
    /\ Len(session_state.questions_history) < 3 =>
           session_state.current_difficulty = 1

\* C1 witness: two answers are recorded, both correct, and the difficulty is
\* still 1.
C1_Witness ==
    /\ session_state.performance_window = <<1, 1>>
    /\ Len(session_state.questions_history) = 2
    /\ session_state.show_feedback
    /\ session_state.current_difficulty = 1

\* C2: with a window of length >= 3 whose last three entries sum to 2 or 3
\* and a current difficulty of 1 or 2, the controller returns current + 1.
C2_Escalates ==
    (called /\ Len(arg_window) >= 3 /\ LastThreeCorrect(arg_window) \in {2, 3}
        /\ arg_current \in {1, 2})
    => ret = arg_current + 1

\* C2 witness: window [1,1,0] at difficulty 1 gave 2.
C2_Witness ==
    called /\ arg_window = <<1, 1, 0>> /\ arg_current = 1 /\ ret = 2

\* C3: with a window of length >= 3 whose last three entries sum to 0 or 1
\* and a current difficulty of 2 or 3, the controller returns current - 1.
C3_Deescalates ==
    (called /\ Len(arg_window) >= 3 /\ LastThreeCorrect(arg_window) \in {0, 1}
        /\ arg_current \in {2, 3})
    => ret = arg_current - 1

\* C3 witness: window [0,0,1] at difficulty 2 gave 1.
C3_Witness ==
    called /\ arg_window = <<0, 0, 1>> /\ arg_current = 2 /\ ret = 1

\* C4: with a window of length >= 3 the controller returns the current
\* difficulty unchanged exactly at the boundaries: at difficulty 3 with at
\* least 2 correct among the last three, and at difficulty 1 with at most 1
\* correct among the last three; in no other case is it unchanged.
C4_HoldsOnlyAtBoundaries ==
    (called /\ Len(arg_window) >= 3)
    => (ret = arg_current
        <=> \/ arg_current = 3 /\ LastThreeCorrect(arg_window) >= 2
            \/ arg_current = 1 /\ LastThreeCorrect(arg_window) <= 1)

\* C4 witness: difficulty 3 with two of the last three correct was held at 3.
C4_Witness ==
    called /\ arg_window = <<0, 1, 0, 1>> /\ arg_current = 3 /\ ret = 3

\* C5: the difficulty never leaves [1,3]: the controller's result is in
\* {1,2,3} for every current in {1,2,3} and every window, and the session's
\* current difficulty is 1, 2 or 3 in every reachable state.
C5_DifficultyInRange ==
    /\ ResultsInRange
    /\ session_state.current_difficulty \in Difficulties

\* C5 witness: a session that has climbed to difficulty 3.
C5_Witness ==
    /\ session_state.current_difficulty = 3
    /\ Len(session_state.performance_window) = 4

\* C6: the controller consults only the three most recent entries: two
\* windows of length >= 3 that agree on their last three entries give the
\* same result at the same current difficulty, whatever their earlier
\* entries and their lengths.
C6_OnlyLastThree ==
    (called /\ Len(arg_window) >= 3 /\ Len(arg_window2) >= 3
        /\ \A k \in 0..2 :
               arg_window[Len(arg_window) - k] = arg_window2[Len(arg_window2) - k])
    => ret = ret2

\* C6 witness: [1,0,1,0,1] and [0,1,0,1] at difficulty 2 both gave 3.
C6_Witness ==
    /\ called
    /\ arg_window = <<1, 0, 1, 0, 1>>
    /\ arg_window2 = <<0, 1, 0, 1>>
    /\ arg_current = 2
    /\ ret = 3
    /\ ret2 = 3

\* C7: in every reachable session state max_difficulty_reached is at least
\* current_difficulty and at least the difficulty recorded in every entry of
\* questions_history.
C7_PeakDominates ==
    /\ session_state.max_difficulty_reached >= session_state.current_difficulty
    /\ \A i \in 1..Len(session_state.questions_history) :
           session_state.max_difficulty_reached >=
               session_state.questions_history[i].difficulty

\* C7 witness: the difficulty rose to 2, a question was answered at 2 and the
\* difficulty came back down to 1 while the peak stayed 2.
C7_Witness ==
    /\ session_state.max_difficulty_reached = 2
    /\ session_state.current_difficulty = 1
    /\ Len(session_state.questions_history) = 4
    /\ session_state.questions_history[4].difficulty = 2

\* The last entry of a non-empty sequence.
Last(seq) == seq[Len(seq)]

\* C8: a step that records an answer appends the correctness bit of the new
\* history entry (1 if correct, else 0) to the window, sets the new current
\* difficulty to the controller's result on the extended window and the old
\* current difficulty (one application of the controller), and sets the new
\* peak to the larger of the old peak and the new current difficulty.
C8_SubmitUpdates ==
    [][ Len(session_state'.questions_history) =
            Len(session_state.questions_history) + 1
        => LET bit == IF Last(session_state'.questions_history).is_correct
                      THEN 1 ELSE 0
                new_window == Append(session_state.performance_window, bit)
                new_current ==
                    calculate_adaptive_difficulty(new_window,
                                                  session_state.current_difficulty)
                old_peak == session_state.max_difficulty_reached
           IN  /\ Last(session_state'.questions_history).is_correct =
                      (upper(Last(session_state'.questions_history).user_answer) =
                       upper(Last(session_state'.questions_history).correct_answer))
               /\ session_state'.performance_window = new_window
               /\ session_state'.current_difficulty = new_current
               /\ session_state'.max_difficulty_reached =
                      IF new_current > old_peak THEN new_current ELSE old_peak
      ]_vars

\* C8 witness: the third answer has just been recorded and, two of the three
\* being correct, the difficulty and the peak went from 1 to 2.
C8_Witness ==
    /\ session_state.show_feedback
    /\ session_state.performance_window = <<1, 0, 1>>
    /\ Len(session_state.questions_history) = 3
    /\ session_state.current_difficulty = 2
    /\ session_state.max_difficulty_reached = 2
    /\ session_state.last_feedback.difficulty_change = "increased"

\* C9: in every reachable session state questions_history and
\* performance_window have the same length, and window bit i is 1 exactly
\* when history entry i has is_correct true.
C9_HistoryMatchesWindow ==
    /\ Len(session_state.questions_history) = Len(session_state.performance_window)
    /\ \A i \in 1..Len(session_state.questions_history) :
           /\ session_state.performance_window[i] \in Bits
           /\ session_state.performance_window[i] = 1
                  <=> session_state.questions_history[i].is_correct

\* C9 witness: two answers are recorded, the first incorrect and the second
\* correct, in both the history and the window.
C9_Witness ==
    /\ session_state.performance_window = <<0, 1>>
    /\ Len(session_state.questions_history) = 2
    /\ ~session_state.questions_history[1].is_correct
    /\ session_state.questions_history[2].is_correct

\* C10: the metrics get_performance_metrics reports equal those derived from
\* the history: total_questions is the number of history entries and
\* correct_answers the number of entries with is_correct true (so
\* correct_answers <= total_questions).
C10_CountersMatchHistory ==
    LET metrics == get_performance_metrics(session_state)
        history == session_state.questions_history
    IN  /\ metrics.total_questions = Len(history)
        /\ metrics.correct_answers =
               Cardinality({i \in 1..Len(history) : history[i].is_correct})
        /\ metrics.correct_answers <= metrics.total_questions

\* C10 witness: three answers are recorded, two of them correct.
C10_Witness ==
    /\ session_state.total_questions = 3
    /\ session_state.correct_answers = 2
    /\ Len(session_state.questions_history) = 3

\* C11: when no question has been answered (total_questions = 0),
\* get_performance_metrics reports accuracy 0 and average difficulty 1, and
\* it never divides by zero; this holds in every reachable state, including
\* right after a restart or a new-document upload.
C11_EmptyMetrics ==
    LET metrics == get_performance_metrics(session_state)
    IN  /\ metrics.accuracy_den # 0
        /\ metrics.avg_difficulty_den # 0
        /\ session_state.total_questions = 0 =>
               /\ metrics.accuracy_num = 0
               /\ metrics.avg_difficulty_num = metrics.avg_difficulty_den

\* C11 witness: a new document was uploaded while feedback was showing and
\* the assessment started again: the question page computes the metrics with
\* nothing answered.
C11_Witness ==
    /\ session_state.total_questions = 0
    /\ session_state.assessment_started
    /\ session_state.show_feedback
    /\ get_performance_metrics(session_state).accuracy_num = 0

\* Position of the first incorrect entry for a topic in a history.
FirstIncorrect(questions_history, topic) ==
    CHOOSE i \in 1..Len(questions_history) :
        /\ questions_history[i].topic = topic
        /\ ~questions_history[i].is_correct
        /\ \A j \in 1..(i - 1) :
               ~(questions_history[j].topic = topic /\ ~questions_history[j].is_correct)

\* The history of the documented example.
ExampleHistory ==
    <<[topic |-> "T1", is_correct |-> TRUE],
      [topic |-> "T2", is_correct |-> FALSE],
      [topic |-> "T1", is_correct |-> FALSE],
      [topic |-> "T3", is_correct |-> FALSE]>>

\* C12: get_weak_topics returns exactly the topics with at least one incorrect
\* history entry, each exactly once, ordered by the position of the topic's
\* first incorrect entry; the documented example gives [T2, T1, T3].
C12_WeakTopics ==
    called =>
        /\ {ret_topics[i] : i \in 1..Len(ret_topics)} =
               {arg_history[i].topic :
                    i \in {j \in 1..Len(arg_history) : ~arg_history[j].is_correct}}
        /\ \A i, j \in 1..Len(ret_topics) : i # j => ret_topics[i] # ret_topics[j]
        /\ \A i, j \in 1..Len(ret_topics) :
               i < j => FirstIncorrect(arg_history, ret_topics[i]) <
                            FirstIncorrect(arg_history, ret_topics[j])
        /\ arg_history = ExampleHistory => ret_topics = <<"T2", "T1", "T3">>

C12_Witness ==
    /\ called
    /\ arg_history = ExampleHistory
    /\ ret_topics = <<"T2", "T1", "T3">>

StrategyOrder == <<"direct", "fenced", "brace">>

\* What a strategy makes of a text.
outcome_of(strategy, text) ==
    CASE strategy = "direct" -> text.direct
      [] strategy = "fenced" -> text.fenced
      [] strategy = "brace" -> text.brace

Succeeds(strategy, text) == outcome_of(strategy, text).kind \notin {"fail", "nomatch"}

\* C13: the strategies are tried strictly in the order direct, fenced block,
\* brace span; a later strategy is attempted only after every earlier one
\* failed; the value returned is that of the first strategy that succeeds,
\* never a later strategy's; the parser raises only when all three failed.
C13_FirstSuccessWins ==
    /\ Len(attempted) <= 3
    /\ \A i \in 1..Len(attempted) :
           /\ attempted[i] = StrategyOrder[i]
           /\ \A j \in 1..(i - 1) : ~Succeeds(StrategyOrder[j], response_text)
    /\ parse_pc = "returned" =>
           /\ Len(attempted) >= 1
           /\ Succeeds(attempted[Len(attempted)], response_text)
           /\ parse_result = outcome_of(attempted[Len(attempted)], response_text)
    /\ parse_pc = "raised" =>
           /\ Len(attempted) = 3
           /\ \A i \in 1..3 : ~Succeeds(StrategyOrder[i], response_text)
    /\ parse_pc \in {"returned", "raised"} =>
           /\ parse_json_response(response_text).pc = parse_pc
           /\ parse_json_response(response_text).result = parse_result

\* The fenced block's value is returned although the brace span would have
\* parsed to a different one.
C13_Witness ==
    /\ parse_pc = "returned"
    /\ attempted = <<"direct", "fenced">>
    /\ parse_result = response_text.fenced
    /\ Succeeds("brace", response_text)
    /\ response_text.brace # response_text.fenced

\* The scoring state of a session.
Scoring(s) ==
    <<s.questions_history, s.performance_window, s.current_difficulty,
      s.max_difficulty_reached, s.total_questions, s.correct_answers>>

ParseFailure == "Could not parse JSON from response"

\* C14: a response on which all three parsing attempts fail gives a record
\* flagged as an error and carrying the parser's reason; an error record is
\* never answered, so no history entry is ever made from one; and an
\* interaction that ends with the error record as the question shown leaves
\* history, window, current difficulty, peak and the counters unchanged.
C14_SentinelNotScored ==
    [][/\ parse_json_response(response_text_of("prose")).pc = "raised"
       /\ \A d \in Difficulties :
              /\ generate_question(d, "prose").error
              /\ generate_question(d, "prose").error_message = ParseFailure
       /\ \A i \in 1..Len(session_state'.questions_history) :
              session_state'.questions_history[i].question # "Error"
       /\ ErrorShown(session_state') =>
              Scoring(session_state') = Scoring(session_state)]_vars

\* A parse failure is shown after an answer has been recorded.
C14_Witness ==
    /\ ErrorShown(session_state)
    /\ session_state.current_question.error_message = ParseFailure
    /\ Len(session_state.questions_history) = 2
    /\ session_state.current_difficulty = 1

\* The interaction on record made a call to the model that failed.
FailedCall(op) ==
    \E i \in 1..Len(last_interaction.calls) :
        /\ last_interaction.calls[i].op = op
        /\ ~last_interaction.calls[i].ok

GenerateCalls ==
    {i \in 1..Len(last_interaction.calls) :
         last_interaction.calls[i].op = "generate_question"}

\* C16: a question-generation call is issued only by an explicit request for
\* a question (Start Assessment, Try Again, Next Question), and one
\* interaction issues at most one.
C16_NoAutomaticRetry ==
    [][/\ Cardinality(GenerateCalls') <= 1
       /\ GenerateCalls' # {} =>
              last_interaction'.click \in {"start", "try_again", "next"}]_vars

\* C17: the answer submitted is compared with, and the history entry made
\* from, the question that was shown when Submit was pressed.
C17_ShownQuestionScored ==
    [][Len(session_state'.questions_history) =
           Len(session_state.questions_history) + 1 =>
           LET entry == Last(session_state'.questions_history)
               shown == session_state.current_question
           IN  /\ entry.question = shown.question
               /\ entry.topic = shown.topic
               /\ entry.difficulty = shown.difficulty
               /\ entry.correct_answer = shown.correct_answer
               /\ entry.is_correct = (upper(answer) = upper(shown.correct_answer))]_vars

\* C18: feedback is shown only for an answer of the present session, and the
\* results page is reached only by a session that answered a question: what
\* a reset left behind is neither shown nor acted on.
C18_NothingSurvivesReset ==
    /\ FeedbackShown(session_state) =>
           /\ Len(session_state.questions_history) >= 1
           /\ Last(session_state.questions_history).question =
                  session_state.current_question.question
    /\ session_state.assessment_complete =>
           Len(session_state.questions_history) >= 1

\* The interaction was the upload of a file whose extraction failed.
FailedUpload ==
    /\ uploaded_file' # uploaded_file
    /\ uploaded_file' # NoFile
    /\ uploaded_file'.name # session_state.pdf_name
    /\ extract_text_from_pdf(uploaded_file').raised

\* C19: the upload of a document whose text extraction fails leaves
\* pdf_content, pdf_name, the assessment flags, history, window, counters,
\* current difficulty and peak as they were.
C19_FailedUploadChangesNothing ==
    [][FailedUpload =>
           /\ session_state'.pdf_content = session_state.pdf_content
           /\ session_state'.pdf_name = session_state.pdf_name
           /\ session_state'.assessment_started = session_state.assessment_started
           /\ session_state'.assessment_complete = session_state.assessment_complete
           /\ Scoring(session_state') = Scoring(session_state)]_vars

\* An unreadable file is held while the assessment on the earlier document
\* goes on with its history.
C19_Witness ==
    /\ uploaded_file = [name |-> "b.pdf", bytes |-> "corrupt"]
    /\ session_state.pdf_name = "a.pdf"
    /\ session_state.assessment_started
    /\ Len(session_state.questions_history) = 2
    /\ session_state.correct_answers = 1

\* The interaction reset the session: a new document was stored, or Start
\* New Assessment was pressed on the results page.
ResetStep ==
    \/ session_state'.pdf_name # session_state.pdf_name
    \/ session_state.assessment_complete /\ ~session_state'.assessment_complete

\* C20: an interaction that is not a reset leaves the history as it was or
\* extends it by exactly one entry at the end, and it extends it only when an
\* answer was submitted to the question shown.
C20_HistoryAppendOnly ==
    [][~ResetStep =>
           \/ session_state'.questions_history = session_state.questions_history
           \/ /\ Len(session_state'.questions_history) =
                     Len(session_state.questions_history) + 1
              /\ SubSeq(session_state'.questions_history, 1,
                        Len(session_state.questions_history)) =
                     session_state.questions_history
              /\ RadioShown(session_state)
              /\ FeedbackShown(session_state')
              /\ Last(session_state'.questions_history).user_answer = answer]_vars

\* A third answer has been added to two that differ from each other.
C20_Witness ==
    /\ Len(session_state.questions_history) = 3
    /\ session_state.questions_history[1] # session_state.questions_history[2]
    /\ FeedbackShown(session_state)

\* C23: the difficulty stored in a history entry is the session's
\* current_difficulty immediately before the answer was recorded, not the
\* level after the adaptive update.
C23_DifficultyAtAsking ==
    [][Len(session_state'.questions_history) =
           Len(session_state.questions_history) + 1 =>
           Last(session_state'.questions_history).difficulty =
               session_state.current_difficulty]_vars

\* The third answer was asked at level 1 and raised the level to 2.
C23_Witness ==
    /\ Len(session_state.questions_history) = 3
    /\ session_state.questions_history[3].difficulty = 1
    /\ session_state.current_difficulty = 2
    /\ session_state.show_feedback

\* C24: immediately after Start New Assessment and immediately after a
\* successful upload of a new document, history and window are empty,
\* total_questions and correct_answers are 0, current_difficulty and
\* max_difficulty_reached are 1, and both assessment flags are false.
C24_ResetsRestoreInitial ==
    [][ResetStep =>
           /\ Scoring(session_state') = Scoring(init_session_state)
           /\ session_state'.questions_history = <<>>
           /\ session_state'.performance_window = <<>>
           /\ session_state'.total_questions = 0
           /\ session_state'.correct_answers = 0
           /\ session_state'.current_difficulty = 1
           /\ session_state'.max_difficulty_reached = 1
           /\ ~session_state'.assessment_started
           /\ ~session_state'.assessment_complete]_vars

\* A new document has just replaced one on which an answer had been given.
C24_Witness ==
    /\ session_state.pdf_name = "b.pdf"
    /\ session_state.show_feedback
    /\ ~session_state.assessment_started
    /\ session_state.questions_history = <<>>
    /\ session_state.max_difficulty_reached = 1

\* On every window of length >= 3 the controller leaves level 2.
LevelTwoLeft ==
    \A w \in AllWindows :
        Len(w) >= 3 => calculate_adaptive_difficulty(w, 2) \in {1, 3}

\* C25: level 2 is never held: the controller at level 2 on a window of
\* length >= 3 returns 1 or 3, no answer both starts and ends at level 2,
\* and from the third answer on every answer moves the level by exactly 1
\* unless it holds it at 1 or at 3.
C25_LevelTwoNeverHeld ==
    [][/\ LevelTwoLeft
       /\ Len(session_state'.questions_history) =
              Len(session_state.questions_history) + 1 =>
              /\ ~(session_state.current_difficulty = 2 /\
                   session_state'.current_difficulty = 2)
              /\ Len(session_state'.questions_history) >= 3 =>
                     \/ session_state'.current_difficulty -
                            session_state.current_difficulty \in {-1, 1}
                     \/ /\ session_state'.current_difficulty =
                               session_state.current_difficulty
                        /\ session_state.current_difficulty \in {1, 3}]_vars

\* The fourth answer was asked at level 2 and moved the level to 3.
C25_Witness ==
    /\ Len(session_state.questions_history) = 4
    /\ session_state.questions_history[4].difficulty = 2
    /\ session_state.current_difficulty = 3

\* The interaction was the upload of a file named like the stored document.
SameNameUpload ==
    /\ uploaded_file' # uploaded_file
    /\ uploaded_file' # NoFile
    /\ uploaded_file'.name = session_state.pdf_name

\* C27: presenting a file whose name equals the stored pdf_name leaves
\* pdf_content and all session state unchanged, whatever the file's bytes; a
\* reset by upload happens only when the name differs and extraction
\* succeeds.
C27_UploadKeysOnName ==
    [][/\ SameNameUpload => session_state' = session_state
       /\ session_state'.pdf_name # session_state.pdf_name =>
              /\ uploaded_file'.name # session_state.pdf_name
              /\ ~extract_text_from_pdf(uploaded_file').raised]_vars

\* The last n entries of a window of at least n entries are all equal to bit.
EndsWithRun(performance_window, n, bit) ==
    /\ Len(performance_window) >= n
    /\ \A i \in (Len(performance_window) - n + 1)..Len(performance_window) :
           performance_window[i] = bit

\* C26: once the last four or more answers are all correct the current
\* difficulty is 3, and it stays 3 while answers stay correct; once the last
\* four or more are all incorrect it is 1 and stays 1.
C26_StreaksConverge ==
    /\ EndsWithRun(session_state.performance_window, 4, 1) =>
           session_state.current_difficulty = 3
    /\ EndsWithRun(session_state.performance_window, 4, 0) =>
           session_state.current_difficulty = 1

\* Three correct answers took the level to 3 by way of the fourth answer, and
\* four incorrect ones brought it back to 1.
C26_Witness ==
    /\ session_state.performance_window = <<1, 1, 1, 0, 0, 0, 0>>
    /\ session_state.current_difficulty = 1
    /\ session_state.max_difficulty_reached = 3


\* The model returned a list of MCQs to the endpoint called, and the
\* endpoint got as far as reading it.
McqListRead ==
    /\ called
    /\ mcq_request.found
    /\ mcq_request.has_list
    /\ IF mcq_request.endpoint = "revise"
       THEN mcq_request.raw = "json" /\ mcq_request.key_concepts = "some"
       ELSE /\ mcq_request.concepts_ok
            /\ mcq_request.formulas_ok
            /\ mcq_request.raw \in {"json", "wrapped"}

\* C22: an endpoint that asks for exactly 10 MCQs (/revise and
\* /generate-quick-pdf) fails with an error when the model returned fewer
\* than 10 and never pads; when the model returned 10 or more, it succeeds
\* with exactly the first 10.
C22_ExactlyTenOrError ==
    McqListRead =>
        IF mcq_request.items < RequiredMcqs
        THEN mcq_response.status = 500 /\ mcq_response.mcqs = <<>>
        ELSE /\ mcq_response.status = 200
             /\ mcq_response.mcqs = mcq_list(RequiredMcqs)


\* No list object is held by two sessions.
NoSharedLists ==
    \A sid \in SessionIds :
        \A other \in SessionIds \ {sid} :
            \A key \in ListKeys, key2 \in ListKeys :
                sessions[sid].state[key] # sessions[other].state[key2]

\* C21: with two learner sessions interleaved in one process, an interaction
\* in one session (an answer, a reset, an upload, a failed call) leaves the
\* other session's history, window, current difficulty, peak and counters
\* as they were, and no list of st.session_state (the defaults of
\* init_session_state or a list assigned later) is held by both sessions.
C21_SessionsIsolated ==
    [][\A sid \in SessionIds :
           SharedStep(sid) =>
               /\ NoSharedLists'
               /\ \A other \in SessionIds \ {sid} :
                      Scoring(View(other))' = Scoring(View(other))]_vars

\* One learner has a correct answer on record, the other an incorrect one
\* on another document, each with its own window.
C21_Witness ==
    /\ View(1).performance_window = <<1>>
    /\ View(1).pdf_name = "a.pdf"
    /\ View(2).performance_window = <<0>>
    /\ View(2).pdf_name = "b.pdf"
    /\ Len(View(1).questions_history) = 1
    /\ Len(View(2).questions_history) = 1

====
